---- MODULE Spec2Model ----
(***************************************************************************)
(* YTD Analog Year Correlation Explorer (src/app.py).                      *)
(*                                                                         *)
(* One run of the Streamlit script for one request: the sliders are read,  *)
(* the price history is fetched, the per-year cumulative-return paths are  *)
(* built, the return matrix is assembled, the other years are correlated   *)
(* with the current year, filtered by the cutoff, sorted, truncated, and   *)
(* the result is displayed and plotted.                                    *)
(*                                                                         *)
(* Numbers.  Prices are small naturals.  A cumulative return is kept       *)
(* exactly, in halves (the value 3 stands for 1.5): every first price the  *)
(* model feeds is 0, 1 or 2, so price / first - 1 is a whole number of     *)
(* halves, or undefined when the first price is 0.  A Pearson coefficient  *)
(* is kept exactly as its sign and its square in lowest terms, so two      *)
(* coefficients are equal as reals iff their records are equal.  Floating  *)
(* point rounding is not modelled.                                         *)
(***************************************************************************)
EXTENDS Integers, Sequences, FiniteSets, TLC

START_YEAR == 1980
\* a year needs at least this many observations (len(grp) < 30)
MinObs == 30
\* the cutoff slider moves in steps of 0.05: min_corr = k / CutoffDen
CutoffDen == 20

\* bounds of the model
MaxYears == 3
MaxTopN == 2

VARIABLES
  pc,              \* position in the script
  top_n,           \* slider, line 109
  min_corr,        \* slider, line 112, in units of 1/CutoffDen
  raw,             \* fetched frame: year -> rows [day, close], date order
  groups,          \* years raw.groupby("Year") has still to yield
  returns_by_year, \* dict in insertion order: <<[year, index, values]>>
  ytd_df,          \* the return matrix
  current_year,
  current_ytd,
  correlations,    \* dict in insertion order: <<[year, rho]>>
  filtered_corr,   \* dict in insertion order
  top_matches,     \* list of [year, rho]
  out              \* what the page shows, in order

vars == <<pc, top_n, min_corr, raw, groups, returns_by_year, ytd_df,
          current_year, current_ytd, correlations, filtered_corr,
          top_matches, out>>

(***************************************************************************)
(* Values                                                                  *)
(***************************************************************************)
\* a float cell: a number (in halves), NaN or inf
Num(v) == [k |-> "num", v |-> v]
NaN == [k |-> "nan", v |-> 0]
Inf == [k |-> "inf", v |-> 0]

Min(a, b) == IF a < b THEN a ELSE b
Sign(a) == IF a < 0 THEN -1 ELSE IF a > 0 THEN 1 ELSE 0

RECURSIVE Gcd(_, _)
Gcd(a, b) == IF b = 0 THEN a ELSE Gcd(b, a % b)

\* seq[:n]
Take(seq, n) == SubSeq(seq, 1, Min(n, Len(seq)))

RECURSIVE SortedSeq(_)
SortedSeq(S) ==
  IF S = {} THEN <<>>
  ELSE LET m == CHOOSE x \in S : \A y \in S : x <= y
       IN  <<m>> \o SortedSeq(S \ {m})

RECURSIVE SumTo(_, _)
SumTo(f, n) == IF n = 0 THEN 0 ELSE f[n] + SumTo(f, n - 1)

(***************************************************************************)
(* The price history the source can return                                 *)
(***************************************************************************)
Years == START_YEAR .. (START_YEAR + MaxYears - 1)
\* dt.datetime.now().year: the last year the history can hold
NowYear == START_YEAR + MaxYears - 1

Shapes == {"rise", "fall", "late", "flat", "zero"}

\* the close of the i-th trading day of a year of the given shape
Close(shape, i) ==
  CASE shape = "rise" -> IF i <= MinObs \div 2 THEN 1 ELSE 2
    [] shape = "fall" -> IF i <= MinObs \div 2 THEN 2 ELSE 1
    [] shape = "late" -> IF i <= (2 * MinObs) \div 3 THEN 2 ELSE 3
    [] shape = "flat" -> 1
    [] shape = "zero" -> IF i = 1 THEN 0 ELSE 1

\* a year of the history: len observations on consecutive days from `first`
Profile(len, shape, first) == [len |-> len, shape |-> shape, first |-> first]

\* the current year is partial: no trading day yet, too few, or just enough
CurrentProfiles ==
  {Profile(0, "flat", 3), Profile(MinObs - 1, "rise", 3),
   Profile(MinObs, "rise", 3)}

\* an earlier year is too short, or longer than the current year
PastProfiles ==
  {Profile(MinObs - 1, "rise", 2)}
  \cup {Profile(MinObs + 1, s, 2) : s \in Shapes}

Histories ==
  {[y \in Years |-> IF y = NowYear THEN c ELSE p[y]] :
     c \in CurrentProfiles, p \in [Years \ {NowYear} -> PastProfiles]}

Rows(p) ==
  [i \in 1 .. p.len |-> [day |-> p.first + i - 1, close |-> Close(p.shape, i)]]

\* df[["Close"]].dropna(); df["Year"] = df.index.year
fetch_price_history(profiles) == [y \in Years |-> Rows(profiles[y])]

\* the keys raw.groupby("Year") yields, ascending
GroupKeys(frame) == SortedSeq({y \in DOMAIN frame : Len(frame[y]) > 0})

(***************************************************************************)
(* Year normalizer                                                         *)
(***************************************************************************)
\* p / p0 - 1 in IEEE arithmetic, in halves
Ret(p, p0) ==
  IF p0 = 0 THEN (IF p = 0 THEN NaN ELSE Inf)
  ELSE Num((2 * p) \div p0 - 2)

\* mutant: the base is prices.iloc[1]
cumulative_returns_second(prices) ==
  [i \in 1 .. Len(prices) |-> Ret(prices[i], prices[2])]

\* prices / prices.iloc[0] - 1
cumulative_returns(prices) ==
  [i \in 1 .. Len(prices) |-> Ret(prices[i], prices[1])]

AnyNull(values) == \E i \in 1 .. Len(values) : values[i] = NaN

\* mutant: the length tests are off by one
BuildStepOffByOne(dict, year, grp) ==
  IF Len(grp) < MinObs - 1 THEN dict
  ELSE LET ytd == cumulative_returns([i \in 1 .. Len(grp) |-> grp[i].close])
           index == [i \in 1 .. Len(grp) |-> grp[i].day]
       IN  IF AnyNull(ytd) \/ Len(ytd) < MinObs - 1 THEN dict
           ELSE Append(dict, [year |-> year, index |-> index, values |-> ytd])

\* one pass of the build loop: the dict after the year's group
BuildStep(dict, year, grp) ==
  IF Len(grp) < MinObs THEN dict
  ELSE LET ytd == cumulative_returns([i \in 1 .. Len(grp) |-> grp[i].close])
           index == [i \in 1 .. Len(grp) |-> grp[i].day]
       IN  IF AnyNull(ytd) \/ Len(ytd) < MinObs THEN dict
           ELSE Append(dict, [year |-> year, index |-> index, values |-> ytd])

(***************************************************************************)
(* Return matrix                                                           *)
(***************************************************************************)
Columns(dict) == [i \in 1 .. Len(dict) |-> dict[i].year]

Entry(dict, year) == dict[CHOOSE i \in 1 .. Len(dict) : dict[i].year = year]

\* the series' value at a day of the joined index, NaN where it has none
CellAt(series, day) ==
  IF \E i \in 1 .. Len(series.index) : series.index[i] = day
  THEN series.values[CHOOSE i \in 1 .. Len(series.index) : series.index[i] = day]
  ELSE NaN

\* pd.DataFrame(returns_by_year): outer join on the day-of-year index
DataFrame(dict) ==
  LET days == UNION {{dict[i].index[j] : j \in 1 .. Len(dict[i].index)} :
                     i \in 1 .. Len(dict)}
      cols == {dict[i].year : i \in 1 .. Len(dict)}
  IN  [columns |-> Columns(dict),
       index |-> SortedSeq(days),
       data |-> [y \in cols |-> [d \in days |-> CellAt(Entry(dict, y), d)]]]

EmptyFrame == DataFrame(<<>>)

InColumns(df, year) == \E i \in 1 .. Len(df.columns) : df.columns[i] = year

\* df[year].dropna(): the column's values in index order, NaN cells dropped
RECURSIVE DropNaFrom(_, _, _)
DropNaFrom(col, index, i) ==
  IF i > Len(index) THEN <<>>
  ELSE IF col[index[i]] = NaN THEN DropNaFrom(col, index, i + 1)
  ELSE <<col[index[i]]>> \o DropNaFrom(col, index, i + 1)

ColumnDropNa(df, year) == DropNaFrom(df.data[year], df.index, 1)

(***************************************************************************)
(* Analog ranker                                                           *)
(***************************************************************************)
\* a coefficient: sign s and square n/d in lowest terms; d = 0 is NaN
RhoNaN == [s |-> 0, n |-> 0, d |-> 0]
IsNaN(r) == r.d = 0

MakeRho(c, vx, vy) ==
  IF vx = 0 \/ vy = 0 THEN RhoNaN
  ELSE LET g == Gcd(c * c, vx * vy)
       IN  [s |-> Sign(c), n |-> (c * c) \div g, d |-> (vx * vy) \div g]

\* np.corrcoef(x, y)[0, 1] of two equally long sequences of numbers:
\* (n Sxy - Sx Sy) / sqrt((n Sxx - Sx Sx) (n Syy - Sy Sy)); 0/0 is NaN
corrcoef(x, y) ==
  LET n == Len(x)
      sx == SumTo([i \in 1 .. n |-> x[i].v], n)
      sy == SumTo([i \in 1 .. n |-> y[i].v], n)
      sxy == SumTo([i \in 1 .. n |-> x[i].v * y[i].v], n)
      sxx == SumTo([i \in 1 .. n |-> x[i].v * x[i].v], n)
      syy == SumTo([i \in 1 .. n |-> y[i].v * y[i].v], n)
  IN  MakeRho(n * sxy - sx * sy, n * sxx - sx * sx, n * syy - sy * sy)

\* a < b on floats; every comparison with NaN is false
RhoLT(a, b) ==
  /\ ~IsNaN(a) /\ ~IsNaN(b)
  /\ \/ a.s < b.s
     \/ a.s = 1 /\ b.s = 1 /\ a.n * b.d < b.n * a.d
     \/ a.s = -1 /\ b.s = -1 /\ a.n * b.d > b.n * a.d

\* rho >= k / CutoffDen, k >= 0
RhoGE(r, k) ==
  /\ ~IsNaN(r)
  /\ IF k = 0 THEN r.s >= 0
     ELSE r.s = 1 /\ CutoffDen * CutoffDen * r.n >= k * k * r.d

\* lines 179-187: the loop over the matrix's columns
RECURSIVE CorrelateFrom(_, _, _, _)
CorrelateFrom(df, cur, cur_ytd, i) ==
  IF i > Len(df.columns) THEN <<>>
  ELSE LET year == df.columns[i]
           past_ytd == ColumnDropNa(df, year)
           overlap == Min(Len(cur_ytd), Len(past_ytd))
           rest == CorrelateFrom(df, cur, cur_ytd, i + 1)
       IN  IF year = cur THEN rest
           ELSE IF overlap < MinObs THEN rest
           ELSE <<[year |-> year,
                   rho |-> corrcoef(Take(cur_ytd, overlap),
                                    Take(past_ytd, overlap))]>> \o rest

\* mutant: the current year is not skipped
RECURSIVE CorrelateAllFrom(_, _, _, _)
CorrelateAllFrom(df, cur, cur_ytd, i) ==
  IF i > Len(df.columns) THEN <<>>
  ELSE LET year == df.columns[i]
           past_ytd == ColumnDropNa(df, year)
           overlap == Min(Len(cur_ytd), Len(past_ytd))
           rest == CorrelateAllFrom(df, cur, cur_ytd, i + 1)
       IN  IF overlap < MinObs THEN rest
           ELSE <<[year |-> year,
                   rho |-> corrcoef(Take(cur_ytd, overlap),
                                    Take(past_ytd, overlap))]>> \o rest

CorrelationsWithSelf(df, cur, cur_ytd) == CorrelateAllFrom(df, cur, cur_ytd, 1)

Correlations(df, cur, cur_ytd) == CorrelateFrom(df, cur, cur_ytd, 1)

\* {yr: rho for yr, rho in correlations.items() if rho >= min_corr}
ApplyCutoff(corrs, cutoff) == SelectSeq(corrs, LAMBDA e : RhoGE(e.rho, cutoff))

\* sorted(items, key=rho, reverse=True): stable, so items of equal key keep
\* the order they had; e goes after every item whose key is not below its own
RECURSIVE InsertDesc(_, _)
InsertDesc(sorted, e) ==
  IF sorted = <<>> THEN <<e>>
  ELSE IF RhoLT(Head(sorted).rho, e.rho) THEN <<e>> \o sorted
  ELSE <<Head(sorted)>> \o InsertDesc(Tail(sorted), e)

RECURSIVE SortFrom(_, _, _)
SortFrom(items, i, acc) ==
  IF i > Len(items) THEN acc
  ELSE SortFrom(items, i + 1, InsertDesc(acc, items[i]))

\* mutant: reverse=True is missing
RECURSIVE InsertAsc(_, _)
InsertAsc(sorted, e) ==
  IF sorted = <<>> THEN <<e>>
  ELSE IF RhoLT(e.rho, Head(sorted).rho) THEN <<e>> \o sorted
  ELSE <<Head(sorted)>> \o InsertAsc(Tail(sorted), e)

RECURSIVE SortAscFrom(_, _, _)
SortAscFrom(items, i, acc) ==
  IF i > Len(items) THEN acc
  ELSE SortAscFrom(items, i + 1, InsertAsc(acc, items[i]))

SortedAsc(items) == SortAscFrom(items, 1, <<>>)

SortedDesc(items) == SortFrom(items, 1, <<>>)

\* mutant: the slice is missing
TruncateNone(items, n) == items

\* [: top_n]
Truncate(items, n) == Take(items, n)

TopMatches(filtered, n) == Truncate(SortedDesc(filtered), n)

(***************************************************************************)
(* The script                                                              *)
(***************************************************************************)
TopNs == 1 .. MaxTopN
Cutoffs == {0, CutoffDen \div 2, CutoffDen}

NoFrame == [y \in Years |-> <<>>]

Init ==
  /\ pc = "fetch"
  /\ top_n \in TopNs
  /\ min_corr \in Cutoffs
  /\ raw = NoFrame
  /\ groups = <<>>
  /\ returns_by_year = <<>>
  /\ ytd_df = EmptyFrame
  /\ current_year = 0
  /\ current_ytd = <<>>
  /\ correlations = <<>>
  /\ filtered_corr = <<>>
  /\ top_matches = <<>>
  /\ out = <<>>

\* lines 147-148, 157: the download succeeds; the build loop starts
FetchOk ==
  /\ pc = "fetch"
  /\ \E profiles \in Histories :
       /\ raw' = fetch_price_history(profiles)
       /\ groups' = GroupKeys(fetch_price_history(profiles))
  /\ pc' = "build"
  /\ UNCHANGED <<top_n, min_corr, returns_by_year, ytd_df, current_year,
                 current_ytd, correlations, filtered_corr, top_matches, out>>

\* mutant: st.stop() is missing after st.error
FetchFailNoStop ==
  /\ pc = "fetch"
  /\ out' = Append(out, "error_download")
  /\ pc' = "build"
  /\ UNCHANGED <<top_n, min_corr, raw, groups, returns_by_year, ytd_df,
                 current_year, current_ytd, correlations, filtered_corr,
                 top_matches>>

\* lines 149-151: the download raises; st.error, st.stop
FetchFail ==
  /\ pc = "fetch"
  /\ out' = Append(out, "error_download")
  /\ pc' = "stop_download"
  /\ UNCHANGED <<top_n, min_corr, raw, groups, returns_by_year, ytd_df,
                 current_year, current_ytd, correlations, filtered_corr,
                 top_matches>>

\* lines 157-164: one pass of the loop over raw.groupby("Year")
BuildYear ==
  /\ pc = "build"
  /\ groups # <<>>
  /\ returns_by_year' = BuildStep(returns_by_year, Head(groups), raw[Head(groups)])
  /\ groups' = Tail(groups)
  /\ UNCHANGED <<pc, top_n, min_corr, raw, ytd_df, current_year, current_ytd,
                 correlations, filtered_corr, top_matches, out>>

\* lines 166-167: the loop is over; the matrix and the current year
BuildMatrix ==
  /\ pc = "build"
  /\ groups = <<>>
  /\ ytd_df' = DataFrame(returns_by_year)
  /\ current_year' = NowYear
  /\ pc' = "current"
  /\ UNCHANGED <<top_n, min_corr, raw, groups, returns_by_year, current_ytd,
                 correlations, filtered_corr, top_matches, out>>

\* lines 169-171: st.warning, st.stop when the current year is no column
CheckCurrent ==
  /\ pc = "current"
  /\ IF ~InColumns(ytd_df, current_year)
     THEN /\ out' = Append(out, "warning_no_current")
          /\ pc' = "stop_no_current"
     ELSE /\ out' = out
          /\ pc' = "correlate"
  /\ UNCHANGED <<top_n, min_corr, raw, groups, returns_by_year, ytd_df,
                 current_year, current_ytd, correlations, filtered_corr,
                 top_matches>>

\* lines 176-187
Correlate ==
  /\ pc = "correlate"
  /\ current_ytd' = ColumnDropNa(ytd_df, current_year)
  /\ correlations' =
       Correlations(ytd_df, current_year, ColumnDropNa(ytd_df, current_year))
  /\ pc' = "cutoff"
  /\ UNCHANGED <<top_n, min_corr, raw, groups, returns_by_year, ytd_df,
                 current_year, filtered_corr, top_matches, out>>

\* lines 190-197
Cutoff ==
  /\ pc = "cutoff"
  /\ filtered_corr' = ApplyCutoff(correlations, min_corr)
  /\ top_matches' = TopMatches(ApplyCutoff(correlations, min_corr), top_n)
  /\ pc' = "guard"
  /\ UNCHANGED <<top_n, min_corr, raw, groups, returns_by_year, ytd_df,
                 current_year, current_ytd, correlations, out>>

\* mutant: st.stop() is missing after st.warning
GuardNoStop ==
  /\ pc = "guard"
  /\ IF top_matches = <<>>
     THEN out' = Append(out, "warning_no_match")
     ELSE out' = out
  /\ pc' = "display"
  /\ UNCHANGED <<top_n, min_corr, raw, groups, returns_by_year, ytd_df,
                 current_year, current_ytd, correlations, filtered_corr,
                 top_matches>>

\* lines 200-202: st.warning, st.stop when nothing survives
Guard ==
  /\ pc = "guard"
  /\ IF top_matches = <<>>
     THEN /\ out' = Append(out, "warning_no_match")
          /\ pc' = "stop_no_match"
     ELSE /\ out' = out
          /\ pc' = "display"
  /\ UNCHANGED <<top_n, min_corr, raw, groups, returns_by_year, ytd_df,
                 current_year, current_ytd, correlations, filtered_corr,
                 top_matches>>

\* lines 207-221: the list of matches
Display ==
  /\ pc = "display"
  /\ out' = Append(out, "matches")
  /\ pc' = "plot"
  /\ UNCHANGED <<top_n, min_corr, raw, groups, returns_by_year, ytd_df,
                 current_year, current_ytd, correlations, filtered_corr,
                 top_matches>>

\* lines 229-283: the chart, the footer, the end of the script
Plot ==
  /\ pc = "plot"
  /\ out' = out \o <<"chart", "footer">>
  /\ pc' = "done"
  /\ UNCHANGED <<top_n, min_corr, raw, groups, returns_by_year, ytd_df,
                 current_year, current_ytd, correlations, filtered_corr,
                 top_matches>>

Next ==
  \/ FetchOk
  \/ FetchFail
  \/ BuildYear
  \/ BuildMatrix
  \/ CheckCurrent
  \/ Correlate
  \/ Cutoff
  \/ Guard
  \/ Display
  \/ Plot

Spec == Init /\ [][Next]_vars

(***************************************************************************)
(* Properties                                                              *)
(***************************************************************************)
\* the cutoff and the sort have run
PostCutoff == pc \in {"guard", "stop_no_match", "display", "plot", "done"}
\* the guard has run
PostGuard == pc \in {"stop_no_match", "display", "plot", "done"}
\* the matrix has been built
PostMatrix == pc \notin {"fetch", "stop_download", "build"}

Member(e, seq) == \E i \in 1 .. Len(seq) : seq[i] = e

\* rho = k / CutoffDen exactly
RhoIs(r, k) ==
  ~IsNaN(r) /\ r.s >= 0 /\ Sign(k) = r.s
  /\ CutoffDen * CutoffDen * r.n = k * k * r.d

\* C1: the match list is ordered by correlation descending, and of two
\* matches with equal correlation the more recent year comes first.
C1_DescThenRecentFirst ==
  PostCutoff =>
    \A i, j \in 1 .. Len(top_matches) :
      i < j =>
        /\ ~RhoLT(top_matches[i].rho, top_matches[j].rho)
        /\ top_matches[i].rho = top_matches[j].rho
             => top_matches[i].year > top_matches[j].year

\* C2: when the nominal current year has no valid path the request stops
\* with the no-current-data warning only if no year at all has a valid
\* path; otherwise it goes on with the most recent valid year as anchor.
C2_FallbackAnchor ==
  /\ pc = "stop_no_current" => returns_by_year = <<>>
  /\ (pc \in {"correlate", "cutoff"} \/ PostCutoff) =>
       /\ InColumns(ytd_df, current_year)
       /\ \A i \in 1 .. Len(ytd_df.columns) : ytd_df.columns[i] <= current_year

\* C3: with a cutoff of 0 nothing is filtered: every candidate that passed
\* the overlap check and has a correlation, a negative one included, is in
\* the set that is sorted and truncated.
C3_ZeroCutoffKeepsAll ==
  (PostCutoff /\ min_corr = 0) =>
    \A i \in 1 .. Len(correlations) :
      ~IsNaN(correlations[i].rho) => Member(correlations[i], filtered_corr)

\* C4: the match list under cutoff c is a subset of the match list the
\* same correlations and top_n give under cutoff 0, every match has
\* correlation >= c, and a candidate with correlation exactly c is kept.
C4_CutoffSubsetInclusive ==
  PostCutoff =>
    LET zero == TopMatches(ApplyCutoff(correlations, 0), top_n)
    IN  /\ \A i \in 1 .. Len(top_matches) :
             /\ Member(top_matches[i], zero)
             /\ top_matches[i].rho.s >= 0
             /\ CutoffDen * CutoffDen * top_matches[i].rho.n
                  >= min_corr * min_corr * top_matches[i].rho.d
        /\ \A i \in 1 .. Len(correlations) :
             RhoIs(correlations[i].rho, min_corr)
               => Member(correlations[i], filtered_corr)

\* C4 witness: a positive cutoff has removed a candidate that cutoff 0
\* keeps, and a match sits exactly on the cutoff
C4_Witness ==
  /\ PostCutoff
  /\ min_corr > 0
  /\ Len(filtered_corr) < Len(ApplyCutoff(correlations, 0))
  /\ \E i \in 1 .. Len(top_matches) : RhoIs(top_matches[i].rho, min_corr)

\* C5: every column of the return matrix is a year with at least 30
\* observations in the history; a shorter year is never a column, and
\* leaving it out shows nothing on the page and does not stop the run.
C5_ColumnsHaveMinObs ==
  /\ \A i \in 1 .. Len(returns_by_year) :
       Len(raw[returns_by_year[i].year]) >= MinObs
  /\ \A i \in 1 .. Len(ytd_df.columns) : Len(raw[ytd_df.columns[i]]) >= MinObs
  /\ \A y \in Years :
       Len(raw[y]) < MinObs =>
         /\ ~InColumns(ytd_df, y)
         /\ \A i \in 1 .. Len(returns_by_year) : returns_by_year[i].year # y
  /\ pc = "build" => out = <<>>
  /\ (\E y \in Years : Len(raw[y]) \in 1 .. MinObs - 1) =>
       pc # "stop_download" /\ \A i \in 1 .. Len(out) : out[i] # "error_download"

\* C5 witness: the history held a year of 29 observations, the run went
\* through to its end and the matrix has columns
C5_Witness ==
  /\ pc = "done"
  /\ \E y \in Years : Len(raw[y]) = MinObs - 1
  /\ Len(ytd_df.columns) > 0

\* C6: the match list has min(top_n, number of surviving candidates)
\* entries; when fewer than top_n survive, and at least one does, all of
\* them are matches and the run goes on to the display without a warning.
C6_MatchCount ==
  /\ PostCutoff => Len(top_matches) = Min(top_n, Len(filtered_corr))
  /\ (PostGuard /\ 0 < Len(filtered_corr) /\ Len(filtered_corr) < top_n) =>
       /\ \A i \in 1 .. Len(filtered_corr) : Member(filtered_corr[i], top_matches)
       /\ pc \in {"display", "plot", "done"}
       /\ \A i \in 1 .. Len(out) : out[i] \in {"matches", "chart", "footer"}
       /\ pc = "done" => out = <<"matches", "chart", "footer">>

\* C6 witness: a finished run in which fewer candidates than top_n survived
C6_Witness ==
  /\ pc = "done"
  /\ 0 < Len(filtered_corr)
  /\ Len(filtered_corr) < top_n

\* C7: when no candidate survives the filters the run shows the
\* no-qualifying-analogs warning and nothing else, and stops there: the
\* match list and the chart are never shown.
C7_NoAnalogsHalts ==
  /\ (PostGuard /\ filtered_corr = <<>>) =>
       /\ pc = "stop_no_match"
       /\ out = <<"warning_no_match">>
       /\ ~ENABLED Next
  /\ (Member("matches", out) \/ Member("chart", out)) => filtered_corr # <<>>

\* C7 witness: cutoff 1.00, candidates exist, none is perfectly correlated
C7_Witness ==
  /\ pc = "stop_no_match"
  /\ min_corr = CutoffDen
  /\ correlations # <<>>
  /\ \A i \in 1 .. Len(correlations) : ~RhoIs(correlations[i].rho, CutoffDen)

\* the stage of the request a position of the script belongs to
Stage ==
  CASE pc = "fetch" -> "FETCHING"
    [] pc = "build" -> "NORMALIZING"
    [] pc = "current" -> "MATRIX_BUILT"
    [] pc \in {"correlate", "cutoff", "guard"} -> "RANKING"
    [] pc \in {"display", "plot", "done"} -> "RANKED"
    [] pc = "stop_no_current" -> "NO_CURRENT_DATA"
    [] pc = "stop_no_match" -> "NO_QUALIFYING_MATCHES"
    [] pc = "stop_download" -> "SOURCE_UNAVAILABLE"

StageEdges ==
  {<<"FETCHING", "NORMALIZING">>, <<"NORMALIZING", "MATRIX_BUILT">>,
   <<"MATRIX_BUILT", "RANKING">>, <<"RANKING", "RANKED">>,
   <<"MATRIX_BUILT", "NO_CURRENT_DATA">>,
   <<"RANKING", "NO_QUALIFYING_MATCHES">>}

\* the run is over: st.stop() was called or the script reached its end
Ended == pc \in {"done", "stop_download", "stop_no_current", "stop_no_match"}

\* what the page shows when the run is over
Outcome ==
  CASE pc = "done" -> out = <<"matches", "chart", "footer">>
    [] pc = "stop_no_current" -> out = <<"warning_no_current">>
    [] pc = "stop_no_match" -> out = <<"warning_no_match">>
    [] pc = "stop_download" -> out = <<"error_download">>
    [] OTHER -> TRUE

C9_PathsFromFirstPrice ==
  /\ \A i \in 1 .. Len(returns_by_year) :
       LET e == returns_by_year[i]
           rows == raw[e.year]
       IN  /\ Len(e.values) = Len(rows)
           /\ e.values[1] = Num(0)
           /\ rows[1].close # 0
           /\ \A j \in 1 .. Len(rows) :
                /\ e.values[j].k = "num"
                /\ e.values[j].v * rows[1].close
                     = 2 * (rows[j].close - rows[1].close)
           /\ InColumns(ytd_df, e.year)
                => ColumnDropNa(ytd_df, e.year) = e.values
  /\ \A y \in Years :
       (Len(raw[y]) > 0 /\ raw[y][1].close = 0) =>
         /\ ~InColumns(ytd_df, y)
         /\ \A i \in 1 .. Len(returns_by_year) : returns_by_year[i].year # y

\* C9 witness: the history held a full year whose first price is 0, and
\* the matrix holds a year whose path leaves 0
C9_Witness ==
  /\ PostMatrix
  /\ \E y \in Years : Len(raw[y]) >= MinObs /\ raw[y][1].close = 0
  /\ \E i \in 1 .. Len(returns_by_year) :
       \E j \in 1 .. Len(returns_by_year[i].values) :
         returns_by_year[i].values[j] # Num(0)

\* C10: the anchor year is no match, no year is matched twice, and every
\* matched year is a column whose path and the anchor's path both have at
\* least 30 observations.
C10_MatchesAreOtherYears ==
  PostCutoff =>
    \A i \in 1 .. Len(top_matches) :
      /\ top_matches[i].year # current_year
      /\ \A j \in 1 .. Len(top_matches) :
           top_matches[j].year = top_matches[i].year => j = i
      /\ InColumns(ytd_df, top_matches[i].year)
      /\ Min(Len(Entry(returns_by_year, current_year).values),
             Len(Entry(returns_by_year, top_matches[i].year).values)) >= MinObs

\* C10 witness: a finished run with two matches
C10_Witness == pc = "done" /\ Len(top_matches) >= 2

====
